---- MODULE Spec2Model ----
(***************************************************************************)
(* A model of the MCP configuration discoverer/merger                      *)
(* (discover_and_add_mcp_servers.py) and of the self-tuning pipeline       *)
(* (main.py, rag_system/).                                                 *)
(*                                                                         *)
(* Python strings are sequences of one-character strings, so that          *)
(* str.split, the suffix match and Path.stem are computed, not assumed.    *)
(* Python dicts are functions; a dict whose keys are field names is a      *)
(* record.                                                                 *)
(***************************************************************************)
EXTENDS Integers, Sequences, FiniteSets, TLC

VARIABLES
    \* ---- one run of main() per invocation ----
    PATH,         \* the directories of $PATH, in order
    mcp_servers,  \* the ./mcp_servers directory of descriptor files
    args,         \* args[p]: the parsed command line of invocation p
    target,       \* the file named by --merge
    pc,           \* pc[p]: where invocation p is in main()
    servers,      \* servers[p]: the local `servers` of main()
    existing,     \* existing[p]: the local `existing` of main()
    stdout,       \* stdout[p]: what invocation p printed
    error,        \* error[p]: the exception that ended invocation p ("none": none)
    events,       \* history: the reads and writes of the target, in order
    \* ---- direct calls of merge_configs(D, N) ----
    mc_pc,        \* "init", "merged" (one call made), "remerged" (two calls)
    mc_heap,      \* the objects of the caller: a sequence, object i at index i
    mc_e, mc_n,   \* the objects passed as `existing` and `new`
    mc_ret,       \* the object returned by the last call (0: none)
    mc_D, mc_N,   \* history: the values of D and N before the first call
    mc_first,     \* history: the value returned by the first call
    \* ---- a direct call of parse_add_flags(add_list) ----
    add_list, parsed,
    \* ---- the tuning pipeline ----
    cfg,          \* the content of config.json
    cfg0,         \* history: config.json before the first call
    calls,        \* history: the number of auto_tune_config calls made
    db            \* the rows of self_opt_metrics, oldest first

varsMain  == <<PATH, mcp_servers, args, target, pc, servers, existing, stdout, error, events>>
varsMerge == <<mc_pc, mc_heap, mc_e, mc_n, mc_ret, mc_D, mc_N, mc_first>>
varsParse == <<add_list, parsed>>
varsTune  == <<cfg, cfg0, calls, db>>
vars == <<varsMain, varsMerge, varsParse, varsTune>>

(***************************************************************************)
(* Bounds of the model.                                                    *)
(***************************************************************************)
MaxItemLen == 5
MaxDirs == 2
MaxFiles == 2
MaxCalls == 3

(***************************************************************************)
(* Strings.                                                                *)
(***************************************************************************)
EmptyMap == [k \in {} |-> TRUE]

\* dict.update(n): every key of n is set, whole value
Update(m, n) ==
    [k \in DOMAIN m \cup DOMAIN n |-> IF k \in DOMAIN n THEN n[k] ELSE m[k]]

\* d[k] = v
Put(m, k, v) ==
    [x \in DOMAIN m \cup {k} |-> IF x = k THEN v ELSE m[x]]

\* {k: v for k, v in f.items() if k in K}
Restrict(f, K) == [k \in K |-> f[k]]

\* c in s
Contains(s, c) == \E i \in 1..Len(s) : s[i] = c

\* s.find(c), 1-based; 0 when absent
Find(s, c) ==
    IF Contains(s, c)
    THEN CHOOSE i \in 1..Len(s) : s[i] = c /\ \A j \in 1..(i - 1) : s[j] # c
    ELSE 0

\* s.rfind(c), 1-based; 0 when absent
RFind(s, c) ==
    IF Contains(s, c)
    THEN CHOOSE i \in 1..Len(s) : s[i] = c /\ \A j \in (i + 1)..Len(s) : s[j] # c
    ELSE 0

\* s.rsplit(c, 1) for a string that contains c
RSplit1(s, c) ==
    <<SubSeq(s, 1, RFind(s, c) - 1), SubSeq(s, RFind(s, c) + 1, Len(s))>>

\* s.split(c, 1) for a string that contains c: cut at the first c
Split1(s, c) ==
    <<SubSeq(s, 1, Find(s, c) - 1), SubSeq(s, Find(s, c) + 1, Len(s))>>

\* s.split(c): cut at every c, empty pieces kept
RECURSIVE SplitOn(_, _)
SplitOn(s, c) ==
    IF Contains(s, c)
    THEN <<Split1(s, c)[1]>> \o SplitOn(Split1(s, c)[2], c)
    ELSE <<s>>

\* s.split(): cut at runs of whitespace, no empty piece
RECURSIVE SplitWs(_)
SplitWs(s) ==
    IF s = <<>> THEN <<>>
    ELSE IF Head(s) = " " THEN SplitWs(Tail(s))
    ELSE IF Contains(s, " ")
         THEN <<Split1(s, " ")[1]>> \o SplitWs(Split1(s, " ")[2])
         ELSE <<s>>

Star == <<"*">>
Wildcard == <<Star>>

(***************************************************************************)
(* parse_add_flags                                                         *)
(***************************************************************************)
\* rest.rsplit(':', 1) in place of rest.split(':', 1)
ColonSplitLast(rest) == RSplit1(rest, ":")

\* command, tools = rest.split(':', 1)
ColonSplit(rest) == Split1(rest, ":")

\* the body of the loop for an item that contains '='; the descriptor it
\* stores, or the exception of command.split()[0]
ParseItem(item) ==
    LET name == Split1(item, "=")[1]
        rest == Split1(item, "=")[2]
        command == IF Contains(rest, ":") THEN ColonSplit(rest)[1] ELSE rest
        tools_list ==
            IF Contains(rest, ":")
            THEN IF ColonSplit(rest)[2] # Star
                 THEN SplitOn(ColonSplit(rest)[2], ",")
                 ELSE Wildcard
            ELSE Wildcard
    IN  IF SplitWs(command) = <<>>
        THEN [raised |-> TRUE, name |-> name, cfg |-> EmptyMap]
        ELSE [raised |-> FALSE, name |-> name,
              cfg |-> [type |-> "local",
                       command |-> Head(SplitWs(command)),
                       args |-> Tail(SplitWs(command)),
                       tools |-> tools_list]]

\* the loop of parse_add_flags from the mapping acc on
RECURSIVE ParseLoop(_, _)
ParseLoop(list, acc) ==
    IF list = <<>> THEN [raised |-> "none", servers |-> acc]
    ELSE IF ~Contains(Head(list), "=") THEN ParseLoop(Tail(list), acc)
    ELSE IF ParseItem(Head(list)).raised
         THEN [raised |-> "IndexError", servers |-> EmptyMap]
         ELSE ParseLoop(Tail(list),
                        Put(acc, ParseItem(Head(list)).name, ParseItem(Head(list)).cfg))

parse_add_flags(list) == ParseLoop(list, EmptyMap)

(***************************************************************************)
(* merge_configs, on a heap of dict objects.  A top-level document object  *)
(* holds, under each key, a plain value or a reference to another dict.    *)
(***************************************************************************)
Ref(i) == [kind |-> "ref", at |-> i]
Val(v) == [kind |-> "val", v |-> v]

\* json.load: the objects of a document, appended to the heap; the
\* document's own object is the last one
StoreDoc(h, doc) ==
    IF "mcpServers" \in DOMAIN doc
    THEN h \o <<doc.mcpServers,
                [k \in DOMAIN doc |->
                    IF k = "mcpServers" THEN Ref(Len(h) + 1) ELSE Val(doc[k])]>>
    ELSE Append(h, [k \in DOMAIN doc |-> Val(doc[k])])

\* the value of the document object i
ValueOf(h, i) ==
    [k \in DOMAIN h[i] |->
        IF h[i][k].kind = "ref" THEN h[h[i][k].at] ELSE h[i][k].v]

\* merged = {} in place of existing.copy()
CopyEmpty(d) == EmptyMap

\* existing.copy(): a new dict with the same keys and the same (shared) values
CopyOf(d) == d

\* field-level merge of two descriptors, lists concatenated
DeepMerge(a, b) ==
    [f \in DOMAIN a \cup DOMAIN b |->
        IF f \in DOMAIN a /\ f \in DOMAIN b /\ f \in {"args", "tools"}
        THEN a[f] \o b[f]
        ELSE IF f \in DOMAIN b THEN b[f] ELSE a[f]]

\* the loop with a field-level merge on collision
StoreEntriesDeep(inner, new) ==
    [k \in DOMAIN inner \cup DOMAIN new |->
        IF k \in DOMAIN inner /\ k \in DOMAIN new THEN DeepMerge(inner[k], new[k])
        ELSE IF k \in DOMAIN new THEN new[k] ELSE inner[k]]

\* the loop with setdefault(name, cfg): an existing entry is kept
StoreEntriesKeep(inner, new) == Update(new, inner)

\* for name, cfg in new.items(): merged["mcpServers"][name] = cfg
StoreEntries(inner, new) == Update(inner, new)

\* merge_configs(existing, new) for the objects e and n of heap h: the heap
\* after the call and the object returned
merge_configs(h, e, n) ==
    LET m  == Len(h) + 1
        h1 == Append(h, CopyOf(h[e]))
        h2 == IF "mcpServers" \in DOMAIN h1[m]
              THEN h1
              ELSE [Append(h1, EmptyMap) EXCEPT
                       ![m] = Put(h1[m], "mcpServers", Ref(Len(h1) + 1))]
        at == h2[m]["mcpServers"].at
        h3 == [h2 EXCEPT ![at] = StoreEntries(h2[at], h2[n])]
    IN  [heap |-> h3, ret |-> m]

\* merge_configs on values: json.load gives fresh objects
MergeValues(doc, new) ==
    LET h0 == Append(StoreDoc(<<>>, doc), new)
        r  == merge_configs(h0, Len(h0) - 1, Len(h0))
    IN  ValueOf(r.heap, r.ret)

(***************************************************************************)
(* find_binaries                                                           *)
(***************************************************************************)
EndsWith(s, suf) ==
    Len(s) >= Len(suf) /\ SubSeq(s, Len(s) - Len(suf) + 1, Len(s)) = suf

\* NAME_PATTERNS.search(name): (mcp-server|-mcp|_mcp)$
NAME_PATTERNS(name) ==
    \/ EndsWith(name, <<"m", "c", "p", "-", "s", "e", "r", "v", "e", "r">>)
    \/ EndsWith(name, <<"-", "m", "c", "p">>)
    \/ EndsWith(name, <<"_", "m", "c", "p">>)

\* Path.stem: the name without its last suffix; a leading or a trailing dot
\* starts no suffix
Stem(name) ==
    IF 1 < RFind(name, ".") /\ RFind(name, ".") < Len(name)
    THEN SubSeq(name, 1, RFind(name, ".") - 1)
    ELSE name

\* s.replace(a, b) for one-character a and b
Replace(s, a, b) == [i \in 1..Len(s) |-> IF s[i] = a THEN b ELSE s[i]]

\* the descriptor find_binaries stores for an entry of directory dir
BinaryCfg(dir, entry) ==
    [type |-> "local", command |-> dir.path \o <<"/">> \o entry.name,
     args |-> <<>>, tools |-> Wildcard]

\* the loop over Path(p).iterdir(), in the order the directory is listed
RECURSIVE ScanDir(_, _, _)
ScanDir(dir, entries, acc) ==
    IF entries = <<>> THEN acc
    ELSE IF Head(entries).is_file /\ Head(entries).x_ok
            /\ NAME_PATTERNS(Head(entries).name)
         THEN ScanDir(dir, Tail(entries),
                      Put(acc, Replace(Stem(Head(entries).name), "-", "_"),
                          BinaryCfg(dir, Head(entries))))
         ELSE ScanDir(dir, Tail(entries), acc)

\* the loop over the directories of $PATH; a missing one raises
\* FileNotFoundError, which is caught
RECURSIVE ScanPath(_, _)
ScanPath(path, acc) ==
    IF path = <<>> THEN acc
    ELSE IF ~Head(path).exists THEN ScanPath(Tail(path), acc)
    ELSE ScanPath(Tail(path), ScanDir(Head(path), Head(path).entries, acc))

find_binaries(path) == ScanPath(path, EmptyMap)

(***************************************************************************)
(* load_yaml_descriptors                                                   *)
(***************************************************************************)
\* the loop with `if "name" not in data: continue`
RECURSIVE LoadLoopSkip(_, _)
LoadLoopSkip(files, acc) ==
    IF files = <<>> THEN [raised |-> "none", servers |-> acc]
    ELSE IF "name" \notin DOMAIN Head(files) THEN LoadLoopSkip(Tail(files), acc)
    ELSE LoadLoopSkip(Tail(files),
                      Put(acc, Head(files).name,
                          Restrict(Head(files), DOMAIN Head(files) \ {"name"})))

\* the loop over base.glob("*.yaml"), in the order the files are listed;
\* data["name"] raises KeyError
RECURSIVE LoadLoop(_, _)
LoadLoop(files, acc) ==
    IF files = <<>> THEN [raised |-> "none", servers |-> acc]
    ELSE IF "name" \notin DOMAIN Head(files)
         THEN [raised |-> "KeyError", servers |-> EmptyMap]
         ELSE LoadLoop(Tail(files),
                       Put(acc, Head(files).name,
                           Restrict(Head(files), DOMAIN Head(files) \ {"name"})))

load_yaml_descriptors(base) ==
    IF ~base.exists THEN [raised |-> "none", servers |-> EmptyMap]
    ELSE LoadLoop(base.files, EmptyMap)

(***************************************************************************)
(* The inputs of the model.                                                *)
(***************************************************************************)
\* every mapping from some of the names to the descriptors
Mappings(names, descs) == UNION {[S -> descs] : S \in SUBSET names}

nm_a_mcp == <<"a", "_", "m", "c", "p">>
nm_x     == <<"x">>
Names    == {nm_a_mcp, nm_x}

d_all    == [type |-> "local", command |-> <<"x">>, args |-> <<>>, tools |-> Wildcard]
d_rw     == [type |-> "local", command |-> <<"r">>, args |-> <<<<"f">>>>,
             tools |-> <<<<"r">>, <<"w">>>>]
d_remote == [type |-> "remote", url |-> <<"u">>]
Descs    == {d_all, d_rw, d_remote}

\* the documents a merge target can hold: with or without mcpServers, with or
\* without another top-level key
Docs ==
    {Restrict([other |-> o, mcpServers |-> m], K) :
        o \in {1, 2}, m \in Mappings(Names, Descs),
        K \in SUBSET {"other", "mcpServers"}}

(***************************************************************************)
(* Direct calls of merge_configs.                                          *)
(***************************************************************************)
IdleMerge ==
    /\ mc_pc = "idle" /\ mc_heap = <<>> /\ mc_e = 0 /\ mc_n = 0 /\ mc_ret = 0
    /\ mc_D = EmptyMap /\ mc_N = EmptyMap /\ mc_first = EmptyMap

InitMerge ==
    /\ mc_D \in Docs
    /\ mc_N \in Mappings(Names, Descs)
    /\ mc_heap = Append(StoreDoc(<<>>, mc_D), mc_N)
    /\ mc_e = Len(mc_heap) - 1
    /\ mc_n = Len(mc_heap)
    /\ mc_ret = 0
    /\ mc_first = EmptyMap
    /\ mc_pc = "init"

\* m1 = merge_configs(D, N)
MergeCall ==
    /\ mc_pc = "init"
    /\ LET r == merge_configs(mc_heap, mc_e, mc_n)
       IN  /\ mc_heap' = r.heap
           /\ mc_ret' = r.ret
           /\ mc_first' = ValueOf(r.heap, r.ret)
    /\ mc_pc' = "merged"
    /\ UNCHANGED <<mc_e, mc_n, mc_D, mc_N>>
    /\ UNCHANGED <<varsMain, varsParse, varsTune>>

\* m2 = merge_configs(m1, N)
MergeAgain ==
    /\ mc_pc = "merged"
    /\ LET r == merge_configs(mc_heap, mc_ret, mc_n)
       IN  /\ mc_heap' = r.heap
           /\ mc_ret' = r.ret
    /\ mc_pc' = "remerged"
    /\ UNCHANGED <<mc_e, mc_n, mc_D, mc_N, mc_first>>
    /\ UNCHANGED <<varsMain, varsParse, varsTune>>

NextMerge == MergeCall \/ MergeAgain

(***************************************************************************)
(* main(): the inputs of a run.                                            *)
(***************************************************************************)
SeqsUpTo(S, n) == UNION {[1..k -> S] : k \in 0..n}

Procs == {"p1", "p2"}

f_a_dash == <<"a", "-", "m", "c", "p">>
f_tool   == <<"t", ".", "s", "h">>

dir_bin  == [path |-> <<"/", "b">>, exists |-> TRUE,
             entries |-> <<[name |-> f_a_dash, is_file |-> TRUE, x_ok |-> TRUE],
                           [name |-> f_tool, is_file |-> TRUE, x_ok |-> TRUE]>>]
dir_opt  == [path |-> <<"/", "o">>, exists |-> TRUE,
             entries |-> <<[name |-> nm_a_mcp, is_file |-> TRUE, x_ok |-> TRUE],
                           [name |-> f_a_dash, is_file |-> TRUE, x_ok |-> FALSE]>>]
dir_gone == [path |-> <<"/", "g">>, exists |-> FALSE, entries |-> <<>>]
DirChoices == {dir_bin, dir_opt, dir_gone}

\* descriptor files: a remote server without a tool list, a local server
\* with one, and a file without `name`
y_a      == [name |-> nm_a_mcp, type |-> "remote", url |-> <<"u">>]
y_x      == [name |-> nm_x, type |-> "local", command |-> <<"r">>,
             args |-> <<>>, tools |-> <<<<"r">>>>]
y_noname == [type |-> "local", command |-> <<"r">>, args |-> <<>>,
             tools |-> <<<<"w">>>>]
FileChoices == {y_a, y_x, y_noname}

\* --add items: a_mcp=x   x=x x:x,x   bad   x=
i_a    == <<"a", "_", "m", "c", "p", "=", "x">>
i_x    == <<"x", "=", "x", " ", "x", ":", "x", ",", "x">>
i_bad  == <<"b", "a", "d">>
i_none == <<"x", "=">>
AddChoices == {i_a, i_x, i_bad}
AddLists == {<<>>, <<i_a>>, <<i_x>>, <<i_bad>>, <<i_a, i_x>>, <<i_x, i_a, i_bad>>,
             <<i_x, i_none>>}

doc_other == [other |-> 1]
doc_full  == [other |-> 1, mcpServers |-> (nm_a_mcp :> d_rw @@ <<"k">> :> d_remote)]
TargetChoices ==
    {[exists |-> FALSE, doc |-> EmptyMap],
     [exists |-> TRUE, doc |-> doc_other],
     [exists |-> TRUE, doc |-> doc_full]}

IdleMain ==
    /\ PATH = <<>>
    /\ mcp_servers = [exists |-> FALSE, files |-> <<>>]
    /\ args = [p \in Procs |-> [merge |-> FALSE, add |-> <<>>]]
    /\ target = [exists |-> FALSE, doc |-> EmptyMap]
    /\ pc = [p \in Procs |-> "idle"]
    /\ servers = [p \in Procs |-> EmptyMap]
    /\ existing = [p \in Procs |-> EmptyMap]
    /\ stdout = [p \in Procs |-> <<>>]
    /\ error = [p \in Procs |-> "none"]
    /\ events = <<>>

\* one invocation, any inputs; without --merge the target file plays no part
InitRun ==
    /\ PATH \in SeqsUpTo(DirChoices, MaxDirs)
    /\ mcp_servers \in
         {[exists |-> FALSE, files |-> <<>>]} \cup
         {[exists |-> TRUE, files |-> fs] : fs \in SeqsUpTo(FileChoices, MaxFiles)}
    /\ \E m \in BOOLEAN, a \in AddLists :
         args = [p \in Procs |-> [merge |-> m, add |-> a]]
    /\ target \in TargetChoices
    /\ args["p1"].merge \/ ~target.exists
    /\ pc = [p \in Procs |-> IF p = "p1" THEN "start" ELSE "idle"]
    /\ servers = [p \in Procs |-> EmptyMap]
    /\ existing = [p \in Procs |-> EmptyMap]
    /\ stdout = [p \in Procs |-> <<>>]
    /\ error = [p \in Procs |-> "none"]
    /\ events = <<>>

\* two invocations with --merge on the same target
InitConc ==
    /\ PATH \in {<<>>, <<dir_bin>>}
    /\ mcp_servers \in
         {[exists |-> FALSE, files |-> <<>>], [exists |-> TRUE, files |-> <<y_x>>]}
    /\ args \in [Procs -> {[merge |-> m, add |-> a] :
                               m \in BOOLEAN, a \in {<<>>, <<i_a>>, <<i_x>>}}]
    /\ target \in TargetChoices
    /\ pc = [p \in Procs |-> "start"]
    /\ servers = [p \in Procs |-> EmptyMap]
    /\ existing = [p \in Procs |-> EmptyMap]
    /\ stdout = [p \in Procs |-> <<>>]
    /\ error = [p \in Procs |-> "none"]
    /\ events = <<>>

(***************************************************************************)
(* main()                                                                  *)
(***************************************************************************)
\* the three updates with the scanner's output applied last
CollectReversed(bins, yamls, adds) ==
    Update(Update(Update(EmptyMap, adds), yamls), bins)

\* servers = {}; servers.update(bins); servers.update(yamls); servers.update(adds)
Collect(bins, yamls, adds) ==
    Update(Update(Update(EmptyMap, bins), yamls), adds)

\* json.dump(config) in place of json.dump(merged)
DocToWriteConfig(old, new) == [mcpServers |-> new]

\* merged = merge_configs(existing, servers), the document written
DocToWrite(old, new) == MergeValues(old, new)

\* args = ap.parse_args() ... config = {"mcpServers": servers}
Discover(p) ==
    /\ pc[p] = "start"
    /\ LET bins  == find_binaries(PATH)
           yamls == load_yaml_descriptors(mcp_servers)
           adds  == parse_add_flags(args[p].add)
       IN  IF yamls.raised # "none"
           THEN /\ error' = [error EXCEPT ![p] = yamls.raised]
                /\ pc' = [pc EXCEPT ![p] = "aborted"]
                /\ UNCHANGED servers
           ELSE IF adds.raised # "none"
           THEN /\ error' = [error EXCEPT ![p] = adds.raised]
                /\ pc' = [pc EXCEPT ![p] = "aborted"]
                /\ UNCHANGED servers
           ELSE /\ servers' = [servers EXCEPT ![p] = Collect(bins, yamls.servers, adds.servers)]
                /\ pc' = [pc EXCEPT ![p] = IF args[p].merge THEN "read" ELSE "print"]
                /\ UNCHANGED error
    /\ UNCHANGED <<PATH, mcp_servers, args, target, existing, stdout, events>>
    /\ UNCHANGED <<varsMerge, varsParse, varsTune>>

\* if path.exists(): existing = json.load(f) else: existing = {}
ReadExisting(p) ==
    /\ pc[p] = "read"
    /\ existing' = [existing EXCEPT ![p] = IF target.exists THEN target.doc ELSE EmptyMap]
    /\ events' = Append(events, [by |-> p, op |-> "read"])
    /\ pc' = [pc EXCEPT ![p] = "write"]
    /\ UNCHANGED <<PATH, mcp_servers, args, target, servers, stdout, error>>
    /\ UNCHANGED <<varsMerge, varsParse, varsTune>>

\* merged = merge_configs(existing, servers); json.dump(merged, f); print(...)
WriteMerged(p) ==
    /\ pc[p] = "write"
    /\ target' = [exists |-> TRUE, doc |-> DocToWrite(existing[p], servers[p])]
    /\ stdout' = [stdout EXCEPT ![p] = Append(@, [kind |-> "wrote"])]
    /\ events' = Append(events, [by |-> p, op |-> "write"])
    /\ pc' = [pc EXCEPT ![p] = "done"]
    /\ UNCHANGED <<PATH, mcp_servers, args, servers, existing, error>>
    /\ UNCHANGED <<varsMerge, varsParse, varsTune>>

\* print(json.dumps(config, indent=2))
PrintConfig(p) ==
    /\ pc[p] = "print"
    /\ stdout' = [stdout EXCEPT ![p] =
                     Append(@, [kind |-> "config", doc |-> [mcpServers |-> servers[p]]])]
    /\ pc' = [pc EXCEPT ![p] = "done"]
    /\ UNCHANGED <<PATH, mcp_servers, args, target, servers, existing, error, events>>
    /\ UNCHANGED <<varsMerge, varsParse, varsTune>>

NextMain ==
    \E p \in Procs : Discover(p) \/ ReadExisting(p) \/ WriteMerged(p) \/ PrintConfig(p)

(***************************************************************************)
(* A direct call of parse_add_flags.                                       *)
(***************************************************************************)
Alphabet == {"x", "=", ":", ",", " ", "*"}

IdleParse == add_list = <<>> /\ parsed = [raised |-> "idle", servers |-> EmptyMap]

\* one item: every string up to MaxItemLen, and x=x x:x,x ; two items: the
\* --add items of the runs
InitParse ==
    /\ add_list \in {<<i>> : i \in SeqsUpTo(Alphabet, MaxItemLen) \cup {i_x}}
                   \cup [1..2 -> AddChoices \cup {i_none}]
    /\ parsed = [raised |-> "pending", servers |-> EmptyMap]

ParseCall ==
    /\ parsed.raised = "pending"
    /\ parsed' = parse_add_flags(add_list)
    /\ UNCHANGED add_list
    /\ UNCHANGED <<varsMain, varsMerge, varsTune>>

NextParse == ParseCall

(***************************************************************************)
(* The tuning pipeline.  Latencies are in tenths of a second and overlap   *)
(* ratios in hundredths, so that the means compare exactly: a mean over n  *)
(* rows is kept as the sum and n.                                          *)
(***************************************************************************)
Max(a, b) == IF a >= b THEN a ELSE b
Min(a, b) == IF a <= b THEN a ELSE b

\* d.get(k, default)
Get(d, k, default) == IF k \in DOMAIN d THEN d[k] ELSE default

RECURSIVE Sum(_, _)
Sum(rows, field) ==
    IF rows = <<>> THEN 0 ELSE Head(rows)[field] + Sum(Tail(rows), field)

RECURSIVE MaxOf(_, _)
MaxOf(rows, field) ==
    IF Len(rows) = 1 THEN Head(rows)[field]
    ELSE Max(Head(rows)[field], MaxOf(Tail(rows), field))

\* ORDER BY timestamp DESC LIMIT n
Recent(rows, n) ==
    IF Len(rows) <= n THEN rows ELSE SubSeq(rows, Len(rows) - n + 1, Len(rows))

\* analyze_recent_metrics(n=10) over at least one row
analyze_recent_metrics(rows) ==
    LET r == Recent(rows, 10)
    IN  [n |-> Len(r),
         sum_chunk_count |-> Sum(r, "chunk_count"),
         sum_overlap |-> Sum(r, "token_overlap_ratio"),
         latency_spike |->
             MaxOf(r, "fetch_latency") * Len(r) > 2 * Sum(r, "fetch_latency")]

\* concurrency_limit - 2 with no max(1, ...)
LowerConcurrencyUnclamped(c) == c - 2

\* max(1, cfg["concurrency_limit"] - 2)
LowerConcurrency(c) == Max(1, c - 2)

\* min(cfg.get("chunk_size", 1024) * 2, 8192), for the chunk size read
RaiseChunk(c) == Min(c * 2, 8192)

\* the config auto_tune_config writes back
auto_tune_config(insights, c) ==
    LET c1 == IF insights.latency_spike
              THEN Put(c, "concurrency_limit", LowerConcurrency(c["concurrency_limit"]))
              ELSE c
        c2 == IF insights.sum_chunk_count > 1000 * insights.n
              THEN Put(c1, "chunk_size", RaiseChunk(Get(c1, "chunk_size", 1024)))
              ELSE c1
        c3 == IF insights.sum_overlap < 10 * insights.n
              THEN Put(c2, "token_overlap", Get(c2, "token_overlap", 32) + 16)
              ELSE c2
    IN  c3

\* the metrics run_pipeline records: latency 0.8, 900 chunks, overlap 0.07
PipelineRow == [fetch_latency |-> 8, chunk_count |-> 900, token_overlap_ratio |-> 7]
\* rows other runs left: a slow fetch, and a large document
SlowRow == [fetch_latency |-> 100, chunk_count |-> 900, token_overlap_ratio |-> 20]
BigRow  == [fetch_latency |-> 8, chunk_count |-> 5000, token_overlap_ratio |-> 50]

IdleTune == cfg = EmptyMap /\ cfg0 = EmptyMap /\ calls = MaxCalls /\ db = <<>>

InitTune ==
    /\ \E cl \in {1, 2, 3, 4, 8}, cs \in {-512, 0, 512, 3000, 4096, 8192},
          K \in {{"concurrency_limit", "chunk_size"},
                 {"concurrency_limit", "chunk_size", "token_overlap"}} :
         cfg = Restrict([concurrency_limit |-> cl, chunk_size |-> cs,
                         token_overlap |-> 32], K)
    /\ cfg0 = cfg
    /\ calls = 0
    /\ db \in {<<>>, <<SlowRow>>, <<BigRow>>, <<SlowRow, BigRow>>}

\* run_pipeline(): record_metrics, analyze_recent_metrics, auto_tune_config;
\* the prompt printed and the git commands of trigger_ci change no state here
RunPipeline ==
    /\ calls < MaxCalls
    /\ db' = Append(db, PipelineRow)
    /\ cfg' = auto_tune_config(analyze_recent_metrics(db'), cfg)
    /\ calls' = calls + 1
    /\ UNCHANGED cfg0
    /\ UNCHANGED <<varsMain, varsMerge, varsParse>>

\* auto_tune_config(insights) with any insights
TuneCall ==
    /\ calls < MaxCalls
    /\ \E spike \in BOOLEAN, cc \in {900, 1000, 1001}, ov \in {7, 10} :
         cfg' = auto_tune_config([n |-> 1, sum_chunk_count |-> cc, sum_overlap |-> ov,
                                  latency_spike |-> spike], cfg)
    /\ calls' = calls + 1
    /\ UNCHANGED <<cfg0, db>>
    /\ UNCHANGED <<varsMain, varsMerge, varsParse>>

NextTune == RunPipeline \/ TuneCall

(***************************************************************************)
(* The specifications.                                                     *)
(***************************************************************************)
\* one run of main()
Init == InitRun /\ IdleMerge /\ IdleParse /\ IdleTune
Next == NextMain
Spec == Init /\ [][Next]_vars

\* two runs of main() on the same target file
StartConc == InitConc /\ IdleMerge /\ IdleParse /\ IdleTune
SpecConc == StartConc /\ [][NextMain]_vars

\* merge_configs, called once and once more on its result
StartMerge == InitMerge /\ IdleMain /\ IdleParse /\ IdleTune
SpecMerge == StartMerge /\ [][NextMerge]_vars

\* parse_add_flags
StartParse == InitParse /\ IdleMain /\ IdleMerge /\ IdleTune
SpecParse == StartParse /\ [][NextParse]_vars

\* auto_tune_config, called from run_pipeline or directly
StartTune == InitTune /\ IdleMain /\ IdleMerge /\ IdleParse
SpecTune == StartTune /\ [][NextTune]_vars

(***************************************************************************)
(* merge_configs: the claims.                                              *)
(***************************************************************************)
\* the document the last call returned
Returned == ValueOf(mc_heap, mc_ret)

\* C2: after merge_configs(D, N) the result has the key mcpServers, and for
\* every name of N its entry there equals N[name] exactly.
C2_NewEntriesReplaceWhole ==
    mc_pc = "merged" =>
        /\ "mcpServers" \in DOMAIN Returned
        /\ \A name \in DOMAIN mc_N :
              /\ name \in DOMAIN Returned.mcpServers
              /\ Returned.mcpServers[name] = mc_N[name]

\* a merge where N names an entry D already has, with a descriptor of other
\* fields
C2_Witness ==
    /\ mc_pc = "merged"
    /\ "mcpServers" \in DOMAIN mc_D
    /\ \E name \in DOMAIN mc_N \cap DOMAIN mc_D.mcpServers :
          /\ mc_D.mcpServers[name] # mc_N[name]
          /\ DOMAIN mc_D.mcpServers[name] # DOMAIN mc_N[name]

\* C3: merge_configs(D, N) keeps every top-level key of D other than
\* mcpServers with its value, keeps every entry of D.mcpServers that N does
\* not name, and adds no top-level key but mcpServers and no entry that is
\* in neither D nor N.
C3_OthersPreserved ==
    mc_pc = "merged" =>
        LET old == IF "mcpServers" \in DOMAIN mc_D THEN mc_D.mcpServers ELSE EmptyMap
        IN  /\ \A k \in DOMAIN mc_D \ {"mcpServers"} :
                  k \in DOMAIN Returned /\ Returned[k] = mc_D[k]
            /\ DOMAIN Returned \subseteq DOMAIN mc_D \cup {"mcpServers"}
            /\ "mcpServers" \in DOMAIN Returned
            /\ \A name \in DOMAIN old \ DOMAIN mc_N :
                  /\ name \in DOMAIN Returned.mcpServers
                  /\ Returned.mcpServers[name] = old[name]
            /\ DOMAIN Returned.mcpServers \subseteq DOMAIN old \cup DOMAIN mc_N

\* a merge into a document with another top-level key and with an entry
\* that N does not name, N not empty
C3_Witness ==
    /\ mc_pc = "merged"
    /\ "other" \in DOMAIN mc_D
    /\ "mcpServers" \in DOMAIN mc_D
    /\ DOMAIN mc_D.mcpServers \ DOMAIN mc_N # {}
    /\ DOMAIN mc_N # {}

\* C4: merge_configs(merge_configs(D, N), N) equals merge_configs(D, N).
C4_MergeIdempotent ==
    mc_pc = "remerged" => Returned = mc_first

\* the second merge done, where the first one replaced an entry of D
C4_Witness ==
    /\ mc_pc = "remerged"
    /\ "mcpServers" \in DOMAIN mc_D
    /\ \E name \in DOMAIN mc_N \cap DOMAIN mc_D.mcpServers :
          mc_D.mcpServers[name] # mc_N[name]
    /\ \E name \in DOMAIN mc_N : "tools" \in DOMAIN mc_N[name]

\* C9: merge_configs leaves its arguments as they were: after the call D
\* and N have the values they had before it, and the result is another
\* object.
C9_ArgumentsUnchanged ==
    mc_pc = "merged" =>
        /\ ValueOf(mc_heap, mc_e) = mc_D
        /\ mc_heap[mc_n] = mc_N
        /\ mc_ret \notin {mc_e, mc_n}

(***************************************************************************)
(* parse_add_flags: the claims.                                            *)
(***************************************************************************)
\* the pieces joined by the separator
RECURSIVE Joined(_, _)
Joined(pieces, sep) ==
    IF Len(pieces) = 1 THEN Head(pieces)
    ELSE Head(pieces) \o <<sep>> \o Joined(Tail(pieces), sep)

\* the maximal runs of s without a blank, as pairs of positions
Runs(s) ==
    {r \in (1..Len(s)) \X (1..Len(s)) :
        /\ r[1] <= r[2]
        /\ \A k \in r[1]..r[2] : s[k] # " "
        /\ (r[1] = 1 \/ s[r[1] - 1] = " ")
        /\ (r[2] = Len(s) \/ s[r[2] + 1] = " ")}

\* the whitespace-separated tokens of s, in order
Tokens(s) ==
    [k \in 1..Cardinality(Runs(s)) |->
        LET r == CHOOSE q \in Runs(s) :
                    Cardinality({o \in Runs(s) : o[1] < q[1]}) = k - 1
        IN  SubSeq(s, r[1], r[2])]

\* the comma-separated list of a tools segment: the pieces without a comma
\* that, joined by commas, give the segment
IsCommaList(tools, segment) ==
    /\ tools # <<>>
    /\ \A k \in 1..Len(tools) : ~Contains(tools[k], ",")
    /\ Joined(tools, ",") = segment

\* d is the descriptor of the command string and the tools segment
Describes(d, commandString, hasSegment, segment) ==
    /\ Tokens(commandString) # <<>>
    /\ d.type = "local"
    /\ d.command = Tokens(commandString)[1]
    /\ d.args = Tail(Tokens(commandString))
    /\ IF ~hasSegment \/ segment = Star
       THEN d.tools = Wildcard
       ELSE IsCommaList(d.tools, segment)

\* the items of add_list that set the entry of their name: they hold a "="
\* and no later item has the same name
Deciding ==
    {k \in 1..Len(add_list) :
        /\ Contains(add_list[k], "=")
        /\ \A j \in (k + 1)..Len(add_list) :
              Contains(add_list[j], "=") =>
                  SubSeq(add_list[j], 1, Find(add_list[j], "=") - 1)
                      # SubSeq(add_list[k], 1, Find(add_list[k], "=") - 1)}

NameOf(item) == SubSeq(item, 1, Find(item, "=") - 1)
RestOf(item) == SubSeq(item, Find(item, "=") + 1, Len(item))

\* the descriptor of item is cut at colon position i of its rest
CutAt(item, i) ==
    /\ NameOf(item) \in DOMAIN parsed.servers
    /\ Describes(parsed.servers[NameOf(item)],
                 SubSeq(RestOf(item), 1, i - 1), TRUE,
                 SubSeq(RestOf(item), i + 1, Len(RestOf(item))))

\* the descriptor of an item without a colon
Uncut(item) ==
    /\ NameOf(item) \in DOMAIN parsed.servers
    /\ Describes(parsed.servers[NameOf(item)], RestOf(item), FALSE, <<>>)

\* C6 as amended: the tools are the segment after the FIRST colon of the
\* text following the first "="; the command string is everything before
\* that colon; command is its first token, args the other tokens, tools the
\* comma-separated list, or the wildcard when there is no colon or the
\* segment is "*".  The call raises IndexError exactly when some item with a
\* "=" has no token in its command string.
C6_ToolsAfterFirstColon ==
    parsed.raised \notin {"pending", "idle"} =>
        /\ parsed.raised = "none" <=>
              \A k \in 1..Len(add_list) :
                  Contains(add_list[k], "=") =>
                      Tokens(IF Contains(RestOf(add_list[k]), ":")
                             THEN SubSeq(RestOf(add_list[k]), 1,
                                         Find(RestOf(add_list[k]), ":") - 1)
                             ELSE RestOf(add_list[k])) # <<>>
        /\ parsed.raised = "none" =>
              \A k \in Deciding :
                  IF Contains(RestOf(add_list[k]), ":")
                  THEN \E i \in 1..Len(RestOf(add_list[k])) :
                          /\ RestOf(add_list[k])[i] = ":"
                          /\ \A j \in 1..(i - 1) : RestOf(add_list[k])[j] # ":"
                          /\ CutAt(add_list[k], i)
                  ELSE Uncut(add_list[k])

\* an item with two colons parsed: its tools segment holds a colon
C6_Witness ==
    /\ parsed.raised = "none"
    /\ Len(add_list) = 1
    /\ Contains(add_list[1], "=")
    /\ Find(RestOf(add_list[1]), ":") # RFind(RestOf(add_list[1]), ":")
    /\ \E k \in 1..Len(parsed.servers[NameOf(add_list[1])].tools) :
          Contains(parsed.servers[NameOf(add_list[1])].tools[k], ":")

\* C6 as stated: the tools are the segment after the LAST colon.
C6_ToolsAfterLastColon ==
    parsed.raised = "none" =>
        \A k \in Deciding :
            IF Contains(RestOf(add_list[k]), ":")
            THEN \E i \in 1..Len(RestOf(add_list[k])) :
                    /\ RestOf(add_list[k])[i] = ":"
                    /\ \A j \in (i + 1)..Len(RestOf(add_list[k])) :
                          RestOf(add_list[k])[j] # ":"
                    /\ CutAt(add_list[k], i)
            ELSE Uncut(add_list[k])

(***************************************************************************)
(* main(): the claims.                                                     *)
(***************************************************************************)
\* invocation p has built its mapping
Collected(p) == pc[p] \in {"read", "write", "print", "done"}

FromScanner == find_binaries(PATH)
FromFiles   == load_yaml_descriptors(mcp_servers).servers
FromAdd(p)  == parse_add_flags(args[p].add).servers

\* C1: in the mapping main() builds, a name has the whole descriptor of the
\* latest source that produced it, scanner < descriptor files < explicit
\* entries, and the mapping has the names of the three sources only.
C1_LaterSourceWins ==
    \A p \in Procs :
        Collected(p) =>
            /\ DOMAIN servers[p] =
                  DOMAIN FromScanner \cup DOMAIN FromFiles \cup DOMAIN FromAdd(p)
            /\ \A name \in DOMAIN servers[p] :
                  servers[p][name] =
                      IF name \in DOMAIN FromAdd(p) THEN FromAdd(p)[name]
                      ELSE IF name \in DOMAIN FromFiles THEN FromFiles[name]
                      ELSE FromScanner[name]

\* a name that all three sources produce, with three different descriptors
C1_Witness ==
    \E p \in Procs :
        /\ Collected(p)
        /\ \E name \in DOMAIN FromScanner \cap DOMAIN FromFiles \cap DOMAIN FromAdd(p) :
              /\ FromScanner[name] # FromFiles[name]
              /\ FromFiles[name] # FromAdd(p)[name]
              /\ FromScanner[name] # FromAdd(p)[name]

\* C5: in the final mapping of a run every descriptor has a tools field
\* that is not empty.
C5_ToolsNeverEmpty ==
    \A p \in Procs :
        Collected(p) =>
            \A name \in DOMAIN servers[p] :
                /\ "tools" \in DOMAIN servers[p][name]
                /\ servers[p][name].tools # <<>>

\* some descriptor file has no `name`
NamelessFile ==
    /\ mcp_servers.exists
    /\ \E k \in 1..Len(mcp_servers.files) : "name" \notin DOMAIN mcp_servers.files[k]

\* C7: when the descriptor directory has a file without `name`, the run
\* gets no further than the loader: the error of the missing key ends it,
\* nothing is printed and the merge target is neither read nor written.
C7_MissingNameAborts ==
    NamelessFile =>
        \A p \in Procs :
            /\ pc[p] \in {"idle", "start", "aborted"}
            /\ pc[p] = "aborted" => error[p] = "KeyError"
            /\ stdout[p] = <<>>
            /\ \A k \in 1..Len(events) : events[k].by # p

\* a run ended by the missing name, with --merge given and explicit entries
C7_Witness ==
    /\ NamelessFile
    /\ \E p \in Procs :
          /\ pc[p] = "aborted"
          /\ error[p] = "KeyError"
          /\ args[p].merge
          /\ args[p].add # <<>>

\* both invocations read the target before either wrote it
BothReadFirst ==
    /\ Len(events) = 4
    /\ events[1].op = "read" /\ events[2].op = "read"
    /\ events[3].op = "write" /\ events[4].op = "write"

ServersOf(doc) == IF "mcpServers" \in DOMAIN doc THEN doc.mcpServers ELSE EmptyMap

\* C8: no lock orders two invocations that merge into the same file.  When
\* both read the file before either writes it, the file is in the end the
\* document the later writer computed from its own read: it has that
\* writer's entries and what that writer read, and no entry that only the
\* earlier writer added.
C8_LastWriterWins ==
    BothReadFirst =>
        LET first == events[3].by
            last  == events[4].by
        IN  /\ target.exists
            /\ ServersOf(target.doc) = Update(ServersOf(existing[last]), servers[last])
            /\ \A k \in DOMAIN existing[last] \ {"mcpServers"} :
                  k \in DOMAIN target.doc /\ target.doc[k] = existing[last][k]
            /\ DOMAIN target.doc = DOMAIN existing[last] \cup {"mcpServers"}
            /\ \A name \in DOMAIN servers[first] :
                  name \notin DOMAIN servers[last] \cup DOMAIN ServersOf(existing[last])
                      => name \notin DOMAIN ServersOf(target.doc)

\* both read first, and the earlier writer's own entry is lost
C8_Witness ==
    /\ BothReadFirst
    /\ events[3].by # events[4].by
    /\ \E name \in DOMAIN servers[events[3].by] :
          /\ name \notin DOMAIN servers[events[4].by]
          /\ name \notin DOMAIN ServersOf(target.doc)
    /\ "other" \in DOMAIN target.doc

(***************************************************************************)
(* auto_tune_config: the claims.                                           *)
(***************************************************************************)
\* what a call may do to the two clamped fields
ClampedStep ==
    /\ cfg'.concurrency_limit >= 1
    /\ cfg'.chunk_size <= 8192
    /\ cfg'.concurrency_limit <= cfg.concurrency_limit
    /\ cfg'.chunk_size >= cfg.chunk_size

\* C10 as amended: from a config.json with concurrency_limit >= 1 and
\* 0 <= chunk_size <= 8192, after any calls with any insights the stored
\* concurrency_limit is >= 1 and never increases, and the stored chunk_size
\* is <= 8192 and never decreases.
C10_ClampsHoldFromNonNegative ==
    [][(/\ cfg0.concurrency_limit >= 1
        /\ cfg0.chunk_size >= 0
        /\ cfg0.chunk_size <= 8192) => ClampedStep]_vars

\* both clamps reached: the limit brought down to 1, the chunk size cut to 8192
C10_Witness ==
    /\ calls >= 2
    /\ cfg0.chunk_size = 3000
    /\ cfg.chunk_size = 8192
    /\ cfg0.concurrency_limit = 2
    /\ cfg.concurrency_limit = 1
    /\ Len(db) > 1

\* C10 as stated: from a config.json with concurrency_limit >= 1 and
\* chunk_size <= 8192.
C10_ClampsHold ==
    [][(/\ cfg0.concurrency_limit >= 1
        /\ cfg0.chunk_size <= 8192) => ClampedStep]_vars

====
